---- MODULE Spec2Model ----
(***************************************************************************)
(* The HTTP access layer of unsugar-io: the axios client of lib/apiClient   *)
(* (request interceptor, response interceptor, response error interceptor  *)
(* with its retry loop), the token manager over localStorage, and the      *)
(* auth and blog facades that call the client.                             *)
(*                                                                         *)
(* Execution is the browser's single thread.  One macrotask is one action: *)
(* a facade is invoked and its request leaves (Request), a response or a   *)
(* transport failure arrives and the interceptor runs (Respond), a backoff *)
(* timer fires and the request is resubmitted (Resubmit), the clock moves  *)
(* (Tick), the application reconfigures the callbacks (Configure).  The    *)
(* promise continuations that follow an interceptor (the facade's then or  *)
(* catch, then the application's) are microtasks: Settle and Finish run    *)
(* before any other macrotask may start.                                   *)
(***************************************************************************)
EXTENDS Integers, Sequences, FiniteSets, TLC

VARIABLES
    now,              \* the wall clock, in seconds; Date.now() is now * 1000
    localStorage,     \* the three string slots of the token manager
    apiClientConfig,  \* the module-level callback configuration of the client
    calls,            \* the calls: request descriptor, position, outcome
    backend           \* whether localStorage can be read: "ok" or "unreadable"

vars == <<now, localStorage, apiClientConfig, calls, backend>>

\* ------------------------------------------------------------------ bounds
\* The clock stops at MaxTime seconds (one call needs 1 + 2 + 4 to exhaust
\* its retries).
MaxTime == 8

\* The call slots.  A slot is reused once the application has its result.
Calls == {1, 2}

\* The seconds the application at large is followed for.
MaxAppTime == 4

\* clearTokens is called at most MaxRepeat times in a row.
MaxRepeat == 2

\* ------------------------------------------------------------- JS values
\* An absent value (null, undefined, a missing property) is None, a present
\* one Some(v).
None == <<>>
Some(v) == <<v>>

\* `x` used as a condition, for a string, a number, a character sequence.
TruthyStr(o) == o # None /\ o[1] # ""
TruthyNum(o) == o # None /\ o[1] # 0
TruthyChars(o) == o # None /\ o[1] # <<>>

\* parseInt's result: a number, or NaN.
NaN == [nan |-> TRUE, n |-> 0]
Num(k) == [nan |-> FALSE, n |-> k]

Digits == <<"0", "1", "2", "3", "4", "5", "6", "7", "8", "9">>
IsDigit(ch) == \E i \in 1..10 : Digits[i] = ch
DigitVal(ch) == (CHOOSE i \in 1..10 : Digits[i] = ch) - 1

RECURSIVE DigitPrefix(_)
DigitPrefix(s) ==
    IF s = <<>> \/ ~IsDigit(Head(s)) THEN <<>>
    ELSE <<Head(s)>> \o DigitPrefix(Tail(s))

RECURSIVE DecimalValue(_)
DecimalValue(d) ==
    IF d = <<>> THEN 0
    ELSE DecimalValue(SubSeq(d, 1, Len(d) - 1)) * 10 + DigitVal(d[Len(d)])

RECURSIVE SkipSpaces(_)
SkipSpaces(s) ==
    IF s # <<>> /\ Head(s) = " " THEN SkipSpaces(Tail(s)) ELSE s

\* parseInt(s, 10): leading white space, an optional sign, then the longest
\* run of decimal digits; NaN when there is no digit.
parseInt(s) ==
    LET t == SkipSpaces(s)
        neg == t # <<>> /\ Head(t) = "-"
        u == IF t # <<>> /\ Head(t) \in {"-", "+"} THEN Tail(t) ELSE t
        d == DigitPrefix(u)
    IN  IF d = <<>> THEN NaN
        ELSE Num(IF neg THEN 0 - DecimalValue(d) ELSE DecimalValue(d))

\* Number.prototype.toString() of an integer.
RECURSIVE toString(_)
toString(n) ==
    IF n < 0 THEN <<"-">> \o toString(0 - n)
    ELSE IF n < 10 THEN <<Digits[n + 1]>>
    ELSE toString(n \div 10) \o <<Digits[(n % 10) + 1]>>

RECURSIVE Pow2(_)
Pow2(k) == IF k = 0 THEN 1 ELSE 2 * Pow2(k - 1)

DateNow(t) == t * 1000

\* ---------------------------------------------------------- token manager
TOKEN_KEY == "auth_token"
REFRESH_TOKEN_KEY == "refresh_token"
TOKEN_EXPIRY_KEY == "token_expiry"
StorageKeys == {TOKEN_KEY, REFRESH_TOKEN_KEY, TOKEN_EXPIRY_KEY}

getItem(ls, key) == ls[key]
setItem(ls, key, value) == [ls EXCEPT ![key] = Some(value)]
removeItem(ls, key) == [ls EXCEPT ![key] = None]

EmptyStorage == [k \in StorageKeys |-> None]

\* localStorage.setItem throws (QuotaExceededError) when the backend refuses
\* the write.  `fault` names the key whose write is refused, None when every
\* write is accepted.
NoFault == None
setItemThrows(key, fault) == fault = Some(key)

\* TokenData: accessToken a string, refreshToken and expiresIn optional.
TokenData(a, r, e) == [accessToken |-> a, refreshToken |-> r, expiresIn |-> e]

\* setTokens that never writes the expiry instant.
setTokensNoExpiry(ls, data, t, fault) ==
    IF setItemThrows(TOKEN_KEY, fault) THEN ls
    ELSE LET s1 == setItem(ls, TOKEN_KEY, data.accessToken)
         IN  IF ~TruthyStr(data.refreshToken) THEN s1
             ELSE IF setItemThrows(REFRESH_TOKEN_KEY, fault) THEN s1
             ELSE setItem(s1, REFRESH_TOKEN_KEY, data.refreshToken[1])

\* The statements of setTokens in order; the first setItem that throws ends
\* the try block, the catch logs, and the writes made so far stay.
setTokens(ls, data, t, fault) ==
    IF setItemThrows(TOKEN_KEY, fault) THEN ls
    ELSE LET s1 == setItem(ls, TOKEN_KEY, data.accessToken)
             s2 == IF TruthyStr(data.refreshToken)
                      /\ ~setItemThrows(REFRESH_TOKEN_KEY, fault)
                   THEN setItem(s1, REFRESH_TOKEN_KEY, data.refreshToken[1])
                   ELSE s1
             s3 == IF TruthyNum(data.expiresIn)
                      /\ ~setItemThrows(TOKEN_EXPIRY_KEY, fault)
                   THEN setItem(s2, TOKEN_EXPIRY_KEY,
                                toString(DateNow(t) + data.expiresIn[1] * 1000))
                   ELSE s2
         IN  IF TruthyStr(data.refreshToken)
                /\ setItemThrows(REFRESH_TOKEN_KEY, fault)
             THEN s1
             ELSE s3

\* Whether a setItem of setTokens threw (the catch block ran).
setTokensCaught(data, fault) ==
    \/ setItemThrows(TOKEN_KEY, fault)
    \/ TruthyStr(data.refreshToken) /\ setItemThrows(REFRESH_TOKEN_KEY, fault)
    \/ TruthyNum(data.expiresIn) /\ setItemThrows(TOKEN_EXPIRY_KEY, fault)

\* localStorage.getItem throws (SecurityError) while the backend cannot be
\* read.
getItemThrows == backend = "unreadable"

\* The getters return null from their catch block.
getAccessToken(ls) == IF getItemThrows THEN None ELSE getItem(ls, TOKEN_KEY)

getRefreshToken(ls) ==
    IF getItemThrows THEN None ELSE getItem(ls, REFRESH_TOKEN_KEY)

\* isTokenExpired with `>` where the source has `>=`.
isTokenExpiredStrict(ls, t) ==
    LET expiry == getItem(ls, TOKEN_EXPIRY_KEY)
    IN  IF getItemThrows THEN TRUE
        ELSE IF ~TruthyChars(expiry) THEN FALSE
        ELSE LET p == parseInt(expiry[1])
             IN  ~p.nan /\ DateNow(t) > p.n

\* isTokenExpired returning false from its catch block.
isTokenExpiredLenient(ls, t) ==
    LET expiry == getItem(ls, TOKEN_EXPIRY_KEY)
    IN  IF getItemThrows \/ ~TruthyChars(expiry) THEN FALSE
        ELSE LET p == parseInt(expiry[1])
             IN  ~p.nan /\ DateNow(t) >= p.n

\* The catch block returns true.
isTokenExpired(ls, t) ==
    LET expiry == getItem(ls, TOKEN_EXPIRY_KEY)
    IN  IF getItemThrows THEN TRUE
        ELSE IF ~TruthyChars(expiry) THEN FALSE
        ELSE LET p == parseInt(expiry[1])
             IN  ~p.nan /\ DateNow(t) >= p.n

\* clearTokens leaving the refresh token behind.
clearTokensKeepRefresh(ls) ==
    removeItem(removeItem(ls, TOKEN_KEY), TOKEN_EXPIRY_KEY)

clearTokens(ls) ==
    removeItem(removeItem(removeItem(ls, TOKEN_KEY), REFRESH_TOKEN_KEY),
               TOKEN_EXPIRY_KEY)

\* isAuthenticated that looks at the token only.
isAuthenticatedTokenOnly(ls, t) == TruthyStr(getAccessToken(ls))

isAuthenticated(ls, t) ==
    LET token == getAccessToken(ls)
    IN  TruthyStr(token) /\ ~isTokenExpired(ls, t)

\* ------------------------------------------------------------ api client
MAX_RETRIES == 3

\* `typeof window !== 'undefined'`: the client runs in a browser.
windowDefined == TRUE

\* Messages are sequences of words, so that includes('timeout') is a search.
includesWord(m, w) == \E i \in 1..Len(m) : m[i] = w

\* A URL is its sequence of path segments; url.includes('/auth/login') is the
\* search for the segments auth, login one after the other.
includes(url, pat) ==
    \E i \in 0..(Len(url) - Len(pat)) :
        \A j \in 1..Len(pat) : url[i + j] = pat[j]

\* response.data, a JSON object: the fields the client and the facades read
\* (`data` stands for the payload entity, data or user).  `null` marks the
\* JSON value null, which has no fields.
Body(m, e, a, r, x, d) ==
    [null |-> FALSE, message |-> m, error |-> e, accessToken |-> a,
     refreshToken |-> r, expiresIn |-> x, data |-> d]

Response(status, data, retryAfter) ==
    [status |-> status, data |-> data,
     headers |-> [h \in {"retry-after"} |-> retryAfter]]

\* The request descriptor (axios config) with the fields the client adds.
RequestConfig(url) ==
    [url |-> url,
     headers |-> [h \in {"Authorization", "X-Request-ID"} |-> None],
     _retryCount |-> None, _retry |-> None]

AxiosError(config, response, code, message) ==
    [config |-> config, response |-> response, code |-> code,
     message |-> message]

ApiError(message, statusCode, code, data) ==
    [name |-> "ApiError", message |-> message, statusCode |-> statusCode,
     code |-> code, data |-> data]

\* What a handler did, in the order it did it.
Ev(op, fn, arg) == [op |-> op, fn |-> fn, arg |-> arg]

DefaultConfig ==
    [onUnauthorized |-> Some("default:login"),
     onForbidden |-> Some("default:forbidden"),
     onRateLimit |-> Some("default:rateLimitEvent")]

\* configureApiClient storing the object it is given: the keys it lacks are
\* lost.
configureApiClientReplace(current, config) ==
    [k \in DOMAIN current |->
        IF k \in DOMAIN config THEN config[k] ELSE None]

\* { ...apiClientConfig, ...config }: the keys config has replace, the
\* others stay.  config is a function from the keys it sets.
configureApiClient(current, config) ==
    [k \in DOMAIN current |->
        IF k \in DOMAIN config THEN config[k] ELSE current[k]]

Bearer(token) == <<"Bearer", token>>

\* `${Date.now()}-${Math.random().toString(36).substring(7)}`
RequestId(t, rnd) == <<DateNow(t), rnd>>

\* requestInterceptor keeping the X-Request-ID a descriptor already has.
requestInterceptorKeepId(config, ls, t, rnd) ==
    LET token == getAccessToken(ls)
        c1 == IF TruthyStr(token) /\ ~isTokenExpired(ls, t)
              THEN [config EXCEPT
                        !.headers["Authorization"] = Some(Bearer(token[1]))]
              ELSE config
    IN  IF config.headers["X-Request-ID"] # None THEN c1
        ELSE [c1 EXCEPT !.headers["X-Request-ID"] = Some(RequestId(t, rnd))]

\* `rnd` is what Math.random() gives.
requestInterceptor(config, ls, t, rnd) ==
    LET token == getAccessToken(ls)
        c1 == IF TruthyStr(token) /\ ~isTokenExpired(ls, t)
              THEN [config EXCEPT
                        !.headers["Authorization"] = Some(Bearer(token[1]))]
              ELSE config
    IN  [c1 EXCEPT !.headers["X-Request-ID"] = Some(RequestId(t, rnd))]

\* responseInterceptor returning the response envelope.
responseInterceptorEnvelope(response) == response

responseInterceptor(response) == response.data

\* data?.message || data?.error || fallback
messageOr(data, fallback) ==
    IF TruthyChars(data.message) THEN data.message[1]
    ELSE IF TruthyChars(data.error) THEN data.error[1]
    ELSE fallback

\* The two ways the error interceptor ends: it throws, or it waits `delay`
\* milliseconds and hands `request` to the client again.
Throws(ls, effects, err, request) ==
    [kind |-> "throw", ls |-> ls,
     effects |-> effects \o <<Ev("throw", err.code, None)>>,
     thrown |-> Some(err), request |-> request, delay |-> 0]

Retries(ls, effects, request, delay) ==
    [kind |-> "retry", ls |-> ls, effects |-> effects, thrown |-> None,
     request |-> request, delay |-> delay]

\* isAuthRoute with the register and refresh tests left out.
isAuthRouteLoginOnly(url) == includes(url, <<"auth", "login">>)

\* isAuthRoute taking every path under /auth/ for an auth route.
isAuthRouteAnyAuth(url) == includes(url, <<"auth">>)

isAuthRoute(url) ==
    \/ includes(url, <<"auth", "login">>)
    \/ includes(url, <<"auth", "register">>)
    \/ includes(url, <<"auth", "refresh">>)

\* The branches of the response error interceptor, in the order it tries
\* them.  `error` is the AxiosError, `cfg` the callback configuration and
\* `ls` the store when the interceptor runs.
\* handle401 without the call of clearTokens.
handle401NoClear(error, cfg, ls) ==
    LET clear == ~isAuthRoute(error.config.url)
        e2 == IF clear /\ windowDefined /\ cfg.onUnauthorized # None
              THEN <<Ev("onUnauthorized", cfg.onUnauthorized[1], None)>>
              ELSE <<>>
        data == error.response[1].data
        errorMessage == messageOr(data, <<"Authentication", "failed">>)
    IN  Throws(ls, e2,
               ApiError(errorMessage, Some(401), "UNAUTHORIZED", Some(data)),
               error.config)

\* handle401 treating a 401 that finds the store already empty as dealt with.
handle401Coalesced(error, cfg, ls) ==
    LET clear == ~isAuthRoute(error.config.url) /\ ls # EmptyStorage
        ls1 == IF clear THEN clearTokens(ls) ELSE ls
        e1 == IF clear THEN <<Ev("clearTokens", "", None)>> ELSE <<>>
        e2 == IF clear /\ windowDefined /\ cfg.onUnauthorized # None
              THEN e1 \o <<Ev("onUnauthorized", cfg.onUnauthorized[1], None)>>
              ELSE e1
        data == error.response[1].data
        errorMessage == messageOr(data, <<"Authentication", "failed">>)
    IN  Throws(ls1, e2,
               ApiError(errorMessage, Some(401), "UNAUTHORIZED", Some(data)),
               error.config)

\* handle401 ending the session only if it is the one the request was sent
\* under.
handle401IfSameSession(error, cfg, ls) ==
    LET same == getItem(ls, TOKEN_KEY) # None
                /\ error.config.headers["Authorization"]
                        = Some(Bearer(getItem(ls, TOKEN_KEY)[1]))
        clear == ~isAuthRoute(error.config.url) /\ same
        ls1 == IF clear THEN clearTokens(ls) ELSE ls
        e1 == IF clear THEN <<Ev("clearTokens", "", None)>> ELSE <<>>
        e2 == IF clear /\ windowDefined /\ cfg.onUnauthorized # None
              THEN e1 \o <<Ev("onUnauthorized", cfg.onUnauthorized[1], None)>>
              ELSE e1
        data == error.response[1].data
        errorMessage == messageOr(data, <<"Authentication", "failed">>)
    IN  Throws(ls1, e2,
               ApiError(errorMessage, Some(401), "UNAUTHORIZED", Some(data)),
               error.config)

handle401(error, cfg, ls) ==
    LET clear == ~isAuthRoute(error.config.url)
        ls1 == IF clear THEN clearTokens(ls) ELSE ls
        e1 == IF clear THEN <<Ev("clearTokens", "", None)>> ELSE <<>>
        e2 == IF clear /\ windowDefined /\ cfg.onUnauthorized # None
              THEN e1 \o <<Ev("onUnauthorized", cfg.onUnauthorized[1], None)>>
              ELSE e1
        data == error.response[1].data
        errorMessage == messageOr(data, <<"Authentication", "failed">>)
    IN  Throws(ls1, e2,
               ApiError(errorMessage, Some(401), "UNAUTHORIZED", Some(data)),
               error.config)

handle400(error, cfg, ls) ==
    LET data == error.response[1].data
        errorMessage == messageOr(data, <<"Validation", "failed">>)
    IN  Throws(ls, <<>>,
               ApiError(errorMessage, Some(400), "VALIDATION_ERROR", Some(data)),
               error.config)

handle403(error, cfg, ls) ==
    LET e1 == IF windowDefined /\ cfg.onForbidden # None
              THEN <<Ev("onForbidden", cfg.onForbidden[1], None)>>
              ELSE <<>>
    IN  Throws(ls, e1,
               ApiError(<<"Access", "forbidden">>, Some(403), "FORBIDDEN",
                        Some(error.response[1].data)),
               error.config)

handle404(error, cfg, ls) ==
    Throws(ls, <<>>,
           ApiError(<<"Resource", "not", "found">>, Some(404), "NOT_FOUND",
                    Some(error.response[1].data)),
           error.config)

\* handle429 handing the callback the header's presence, not its value.
handle429NoParse(error, cfg, ls) ==
    LET e1 == IF windowDefined /\ cfg.onRateLimit # None
              THEN <<Ev("onRateLimit", cfg.onRateLimit[1], None)>>
              ELSE <<>>
    IN  Throws(ls, e1,
               ApiError(<<"Too", "many", "requests">>, Some(429),
                        "RATE_LIMIT_EXCEEDED", Some(error.response[1].data)),
               error.config)

handle429(error, cfg, ls) ==
    LET retryAfter == error.response[1].headers["retry-after"]
        retryAfterSeconds == IF TruthyChars(retryAfter)
                             THEN Some(parseInt(retryAfter[1]))
                             ELSE None
        e1 == IF windowDefined /\ cfg.onRateLimit # None
              THEN <<Ev("onRateLimit", cfg.onRateLimit[1], retryAfterSeconds)>>
              ELSE <<>>
    IN  Throws(ls, e1,
               ApiError(<<"Too", "many", "requests">>, Some(429),
                        "RATE_LIMIT_EXCEEDED", Some(error.response[1].data)),
               error.config)

\* backoffDelay growing linearly: 1s, 2s, 3s.
backoffDelayLinear(retryCount) == (retryCount + 1) * 1000

\* Exponential backoff, in milliseconds.
backoffDelay(retryCount) == Pow2(retryCount) * 1000

\* handle5xx retrying without a limit.
handle5xxUnbounded(error, cfg, ls) ==
    LET originalRequest == error.config
        retryCount == IF originalRequest._retryCount = None THEN 0
                      ELSE originalRequest._retryCount[1]
    IN  Retries(ls, <<>>,
                [originalRequest EXCEPT !._retryCount = Some(retryCount + 1),
                                        !._retry = Some(TRUE)],
                backoffDelay(retryCount))

\* handle5xx dropping the session before it retries.
handle5xxClearing(error, cfg, ls) ==
    LET originalRequest == error.config
        retryCount == IF originalRequest._retryCount = None THEN 0
                      ELSE originalRequest._retryCount[1]
    IN  IF retryCount < MAX_RETRIES
        THEN Retries(clearTokens(ls), <<Ev("clearTokens", "", None)>>,
                     [originalRequest EXCEPT !._retryCount = Some(retryCount + 1),
                                             !._retry = Some(TRUE)],
                     backoffDelay(retryCount))
        ELSE Throws(ls, <<>>,
                    ApiError(<<"Server", "error">>, Some(error.response[1].status),
                             "SERVER_ERROR", Some(error.response[1].data)),
                    originalRequest)

handle5xx(error, cfg, ls) ==
    LET originalRequest == error.config
        retryCount == IF originalRequest._retryCount = None THEN 0
                      ELSE originalRequest._retryCount[1]
    IN  IF retryCount < MAX_RETRIES
        THEN Retries(ls, <<>>,
                     [originalRequest EXCEPT !._retryCount = Some(retryCount + 1),
                                             !._retry = Some(TRUE)],
                     backoffDelay(retryCount))
        ELSE Throws(ls, <<>>,
                    ApiError(<<"Server", "error">>, Some(error.response[1].status),
                             "SERVER_ERROR", Some(error.response[1].data)),
                    originalRequest)

handleTimeout(error, cfg, ls) ==
    Throws(ls, <<>>, ApiError(<<"Request", "timeout">>, None, "TIMEOUT", None),
           error.config)

\* handleNetworkError rejecting with the error it was given.
handleNetworkErrorRaw(error, cfg, ls) ==
    Throws(ls, <<>>,
           [name |-> "AxiosError", message |-> error.message, statusCode |-> None,
            code |-> error.code, data |-> None],
           error.config)

handleNetworkError(error, cfg, ls) ==
    Throws(ls, <<>>, ApiError(<<"Network", "error">>, None, "NETWORK_ERROR", None),
           error.config)

handleGeneric(error, cfg, ls) ==
    Throws(ls, <<>>,
           ApiError(IF error.message # <<>> THEN error.message
                    ELSE <<"An", "unexpected", "error", "occurred">>,
                    Some(error.response[1].status), "UNKNOWN_ERROR",
                    Some(error.response[1].data)),
           error.config)

\* responseErrorInterceptor sending a 429 down the retry branch.
responseErrorInterceptorRetry429(error, cfg, ls) ==
    LET hasResponse == error.response # None
        status == IF hasResponse THEN error.response[1].status ELSE 0
    IN  IF hasResponse /\ status = 401 THEN handle401(error, cfg, ls)
        ELSE IF hasResponse /\ status = 400 THEN handle400(error, cfg, ls)
        ELSE IF hasResponse /\ status = 403 THEN handle403(error, cfg, ls)
        ELSE IF hasResponse /\ status = 404 THEN handle404(error, cfg, ls)
        ELSE IF hasResponse /\ status >= 429 THEN handle5xx(error, cfg, ls)
        ELSE IF error.code = "ECONNABORTED"
                \/ includesWord(error.message, "timeout")
             THEN handleTimeout(error, cfg, ls)
        ELSE IF ~hasResponse THEN handleNetworkError(error, cfg, ls)
        ELSE handleGeneric(error, cfg, ls)

\* responseErrorInterceptor testing for a missing response before it tests
\* for a timeout.
responseErrorInterceptorNoResponseFirst(error, cfg, ls) ==
    LET hasResponse == error.response # None
        status == IF hasResponse THEN error.response[1].status ELSE 0
    IN  IF hasResponse /\ status = 401 THEN handle401(error, cfg, ls)
        ELSE IF hasResponse /\ status = 400 THEN handle400(error, cfg, ls)
        ELSE IF hasResponse /\ status = 403 THEN handle403(error, cfg, ls)
        ELSE IF hasResponse /\ status = 404 THEN handle404(error, cfg, ls)
        ELSE IF hasResponse /\ status = 429 THEN handle429(error, cfg, ls)
        ELSE IF hasResponse /\ status >= 500 THEN handle5xx(error, cfg, ls)
        ELSE IF ~hasResponse THEN handleNetworkError(error, cfg, ls)
        ELSE IF error.code = "ECONNABORTED"
                \/ includesWord(error.message, "timeout")
             THEN handleTimeout(error, cfg, ls)
        ELSE handleGeneric(error, cfg, ls)

\* responseErrorInterceptor sparing the session when a retried request is
\* answered 401.
responseErrorInterceptorLenientOnRetry(error, cfg, ls) ==
    LET hasResponse == error.response # None
        status == IF hasResponse THEN error.response[1].status ELSE 0
    IN  IF hasResponse /\ status = 401
        THEN IF error.config._retryCount # None
             THEN handle401NoClear(error, cfg, ls)
             ELSE handle401(error, cfg, ls)
        ELSE IF hasResponse /\ status = 400 THEN handle400(error, cfg, ls)
        ELSE IF hasResponse /\ status = 403 THEN handle403(error, cfg, ls)
        ELSE IF hasResponse /\ status = 404 THEN handle404(error, cfg, ls)
        ELSE IF hasResponse /\ status = 429 THEN handle429(error, cfg, ls)
        ELSE IF hasResponse /\ status >= 500 THEN handle5xx(error, cfg, ls)
        ELSE IF error.code = "ECONNABORTED"
                \/ includesWord(error.message, "timeout")
             THEN handleTimeout(error, cfg, ls)
        ELSE IF ~hasResponse THEN handleNetworkError(error, cfg, ls)
        ELSE handleGeneric(error, cfg, ls)

responseErrorInterceptor(error, cfg, ls) ==
    LET hasResponse == error.response # None
        status == IF hasResponse THEN error.response[1].status ELSE 0
    IN  IF hasResponse /\ status = 401 THEN handle401(error, cfg, ls)
        ELSE IF hasResponse /\ status = 400 THEN handle400(error, cfg, ls)
        ELSE IF hasResponse /\ status = 403 THEN handle403(error, cfg, ls)
        ELSE IF hasResponse /\ status = 404 THEN handle404(error, cfg, ls)
        ELSE IF hasResponse /\ status = 429 THEN handle429(error, cfg, ls)
        ELSE IF hasResponse /\ status >= 500 THEN handle5xx(error, cfg, ls)
        ELSE IF error.code = "ECONNABORTED"
                \/ includesWord(error.message, "timeout")
             THEN handleTimeout(error, cfg, ls)
        ELSE IF ~hasResponse THEN handleNetworkError(error, cfg, ls)
        ELSE handleGeneric(error, cfg, ls)

\* ---------------------------------------------------------------- facades
\* The facade methods and the path each one requests; an id or a slug is one
\* path segment.
FacadePath ==
    [login |-> <<"api", "v1", "auth", "login">>,
     register |-> <<"api", "v1", "auth", "register">>,
     refreshAccessToken |-> <<"api", "v1", "auth", "refresh">>,
     logout |-> <<"api", "v1", "auth", "logout">>,
     getCurrentUser |-> <<"api", "v1", "auth", "me">>,
     updateProfile |-> <<"api", "v1", "auth", "profile">>,
     getAllBlogs |-> <<"api", "v1", "blogs">>,
     getBlogById |-> <<"api", "v1", "blogs", "42">>,
     getBlogBySlug |-> <<"api", "v1", "blogs", "slug", "my-post">>,
     getAllTags |-> <<"api", "v1", "blogs", "tags", "all">>]

AllFacades == DOMAIN FacadePath

\* The facades the pages call while a session runs.
Facades ==
    {"login", "register", "refreshAccessToken", "getCurrentUser", "getAllBlogs"}

\* The facades that store the credential they receive.
Savers == {"login", "register", "refreshAccessToken"}

\* What a promise settles with: a value, or a thrown error.
Resolved(value) == [ok |-> TRUE, value |-> Some(value), error |-> None]
Rejected(err) == [ok |-> FALSE, value |-> None, error |-> Some(err)]

\* Reading a property of null.
TypeError ==
    [name |-> "TypeError", message |-> <<"Cannot", "read", "properties">>,
     statusCode |-> None, code |-> "", data |-> None]

\* The error each facade throws for a failure that is not an ApiError.
FacadeError(via) ==
    IF via = "login"
    THEN ApiError(<<"Login", "failed">>, None, "LOGIN_ERROR", None)
    ELSE IF via = "register"
    THEN ApiError(<<"Registration", "failed">>, None, "REGISTER_ERROR", None)
    ELSE IF via = "refreshAccessToken"
    THEN ApiError(<<"Token", "refresh", "failed">>, Some(401), "REFRESH_ERROR",
                  None)
    ELSE IF via = "getCurrentUser"
    THEN ApiError(<<"Failed", "to", "get", "user", "profile">>, None,
                  "PROFILE_ERROR", None)
    ELSE IF via = "updateProfile"
    THEN ApiError(<<"Failed", "to", "update", "profile">>, None,
                  "UPDATE_PROFILE_ERROR", None)
    ELSE IF via = "getAllBlogs"
    THEN ApiError(<<"Failed", "to", "fetch", "blogs">>, None,
                  "FETCH_BLOGS_ERROR", None)
    ELSE IF via \in {"getBlogById", "getBlogBySlug"}
    THEN ApiError(<<"Blog", "not", "found">>, Some(404), "BLOG_NOT_FOUND", None)
    ELSE ApiError(<<"Failed", "to", "fetch", "tags">>, None, "FETCH_TAGS_ERROR",
                  None)

\* FacadeCatch wrapping every error it catches.
FacadeCatchWrapAll(via, err, ls) ==
    [ls |-> IF via = "refreshAccessToken" THEN clearTokens(ls) ELSE ls,
     settled |-> Rejected(FacadeError(via)), caught |-> FALSE]

\* What a facade that returns nothing resolves with.
Void == Body(None, None, None, None, None, None)

\* logout whose finally block leaves the store alone.
logoutFinallyKeep(ls) == [ls |-> ls, settled |-> Resolved(Void),
                          caught |-> FALSE]

\* logout: its finally block clears the store, whatever went before.
logoutFinally(ls) == [ls |-> clearTokens(ls), settled |-> Resolved(Void),
                      caught |-> FALSE]

\* FacadeCatch in which refreshAccessToken leaves the store alone.
FacadeCatchNoClear(via, err, ls) ==
    IF via = "logout" THEN logoutFinally(ls)
    ELSE [ls |-> ls,
          settled |-> Rejected(IF err.name = "ApiError" THEN err
                               ELSE FacadeError(via)),
          caught |-> FALSE]

\* The facade's catch block: refreshAccessToken clears the store first; an
\* ApiError is thrown on as it is, anything else is replaced.  logout logs
\* the error and goes on to its finally block.
FacadeCatch(via, err, ls) ==
    IF via = "logout" THEN logoutFinally(ls)
    ELSE [ls |-> IF via = "refreshAccessToken" THEN clearTokens(ls) ELSE ls,
          settled |-> Rejected(IF err.name = "ApiError" THEN err
                               ELSE FacadeError(via)),
          caught |-> FALSE]

\* The facade's code after `await apiClient...` returned `data`: the store it
\* leaves, what it returns, and whether setTokens caught a storage error.
\* Reading a field of a null body throws inside the try block.
FacadeThen(via, data, ls, t, fault) ==
    IF via = "logout" THEN logoutFinally(ls)
    ELSE IF data.null THEN FacadeCatch(via, TypeError, ls)
    ELSE IF via \in Savers
    THEN LET tokenData == TokenData(data.accessToken[1], data.refreshToken,
                                    data.expiresIn)
         IN  [ls |-> setTokens(ls, tokenData, t, fault),
              settled |-> Resolved(
                  IF via = "refreshAccessToken"
                  THEN Body(None, None, data.accessToken, data.refreshToken,
                            data.expiresIn, None)
                  ELSE data),
              caught |-> setTokensCaught(tokenData, fault)]
    ELSE [ls |-> ls,
          settled |-> Resolved(Body(None, None, None, None, None, data.data)),
          caught |-> FALSE]

\* ------------------------------------------------------------------ calls
\* A call: its position (pc), the facade that made it (via), its request
\* descriptor (config), the instant its backoff timer fires (wakeAt), and
\* what the client settled with (result) and the facade (final).  The rest
\* is the call's history: the attempts sent, the delays waited, the answers
\* with a status of 500 or more, the instant of the last one, the last
\* answer, the store as the interceptor found it and as it left it, what
\* the handlers did, and the callbacks configured when the call was made.
\* For a token manager function the application calls itself: its argument
\* (arg), the instant of the call (at), how often it was called in a row
\* (times).  For any save: the write the backend refused (fault) and whether
\* setTokens caught an error (caught).
IdleCall ==
    [pc |-> "idle", via |-> "", config |-> RequestConfig(<<>>), wakeAt |-> 0,
     attempts |-> 0, waits |-> <<>>, serverErrors |-> 0, failedAt |-> 0,
     last |-> None, lsBefore |-> EmptyStorage, lsAfter |-> EmptyStorage,
     effects |-> <<>>, result |-> None, final |-> None,
     issuedUnder |-> DefaultConfig, arg |-> None, at |-> 0, times |-> 0,
     fault |-> NoFault, caught |-> FALSE]

OffCall == [IdleCall EXCEPT !.pc = "off"]

\* A promise continuation is pending: no other task starts before it ran.
Microtask == \E c \in Calls : calls[c].pc \in {"settling", "done"}

\* ---------------------------------------------------- the network's answers
MSG_TIMEOUT == <<"timeout", "of", "30000ms", "exceeded">>
MSG_NETWORK == <<"Network", "Error">>
MSG_STATUS == <<"Request", "failed", "with", "status", "code">>

NoBody == Body(None, None, None, None, None, None)
ErrBodies ==
    {NoBody,
     Body(Some(<<"server-message">>), None, None, None, None, None),
     Body(None, Some(<<"server-error">>), None, None, None, None)}

AuthBodies ==
    {Body(None, None, Some("t1"), Some("r1"), Some(2), None),
     Body(None, None, Some("t2"), None, None, None)}

BlogBodies == {Body(None, None, None, None, None, Some("blogs"))}

\* A 2xx response whose body is the JSON value null.
NullBody == [NoBody EXCEPT !.null = TRUE]

SuccessBodies(via) ==
    IF via \in Savers THEN AuthBodies
    ELSE IF via = "logout" THEN {NoBody}
    ELSE BlogBodies

\* What Math.random() may contribute to a request id; where no two ids are
\* compared one value stands for it.
Randoms == {"k3f9", "p07q"}
OneRandom == {"k3f9"}

RetryAfterValues ==
    {None, Some(<<>>), Some(<<"3", "0">>), Some(<<"0">>),
     Some(<<"W", "e", "d">>)}

ErrStatuses == {400, 401, 403, 404, 409, 429, 500, 502, 503}

\* validateStatus of axios: a status from 200 to 299 resolves.
validateStatus(status) == status >= 200 /\ status < 300

Answer(response, code, message) ==
    [response |-> response, code |-> code, message |-> message]

\* The error bodies differ where the client reads them (400 and 401).
Answers(via) ==
    {Answer(Some(Response(200, b, None)), "", <<>>) : b \in SuccessBodies(via)}
    \cup {Answer(Some(Response(st, b, None)), "ERR_BAD_REQUEST", MSG_STATUS) :
            st \in {400, 401}, b \in ErrBodies}
    \cup {Answer(Some(Response(st, NoBody, None)),
                 IF st >= 500 THEN "ERR_BAD_RESPONSE" ELSE "ERR_BAD_REQUEST",
                 MSG_STATUS) :
            st \in ErrStatuses \ {400, 401, 429}}
    \cup {Answer(Some(Response(429, NoBody, ra)), "ERR_BAD_REQUEST", MSG_STATUS) :
            ra \in RetryAfterValues}
    \cup {Answer(None, "ECONNABORTED", MSG_TIMEOUT),
          Answer(None, "ETIMEDOUT", MSG_TIMEOUT),
          Answer(None, "ERR_NETWORK", MSG_NETWORK)}

\* One answer of each class, and the null body, for the calls of any facade.
AppAnswers(via) ==
    {Answer(Some(Response(200, b, None)), "", <<>>) :
        b \in SuccessBodies(via) \cup {NullBody}}
    \cup {Answer(Some(Response(st, NoBody, None)),
                 IF st >= 500 THEN "ERR_BAD_RESPONSE" ELSE "ERR_BAD_REQUEST",
                 MSG_STATUS) :
            st \in {401, 403, 404}}
    \cup {Answer(Some(Response(429, NoBody, Some(<<"3", "0">>))),
                 "ERR_BAD_REQUEST", MSG_STATUS),
          Answer(None, "ERR_NETWORK", MSG_NETWORK)}

StatusOf(ans) == IF ans.response = None THEN 0 ELSE ans.response[1].status

\* The callback sets the application passes to configureApiClient.
Partials ==
    {[k \in {"onUnauthorized", "onRateLimit"} |->
        IF k = "onUnauthorized" THEN Some("custom:unauthorized") ELSE None]}

\* Two callback sets that overlap in no key.
AppPartials ==
    {[k \in {"onUnauthorized"} |-> Some("custom:unauthorized")],
     [k \in {"onForbidden", "onRateLimit"} |->
        IF k = "onForbidden" THEN Some("custom:forbidden") ELSE None]}

\* The records the application hands to setTokens itself.
TokenInputs ==
    {TokenData("t1", None, Some(1)), TokenData("t2", Some("r1"), None)}

\* The writes the backend may refuse.
Faults == {NoFault} \cup {Some(k) : k \in StorageKeys}

\* ---------------------------------------------------------------- actions
Init ==
    /\ now = 0
    /\ localStorage = EmptyStorage
    /\ apiClientConfig = DefaultConfig
    /\ backend = "ok"
    /\ calls = [c \in Calls |-> IF c = 1 THEN IdleCall ELSE OffCall]

\* The application invokes facade `via`; its request passes the request
\* interceptor and leaves.  Without a refresh token, refreshAccessToken throws
\* and logout clears the store, both before any request.
Request(c, via, rnd) ==
    /\ ~Microtask
    /\ calls[c].pc = "idle"
    /\ IF via \in {"refreshAccessToken", "logout"}
          /\ ~TruthyStr(getRefreshToken(localStorage))
       THEN LET f == IF via = "logout" THEN logoutFinally(localStorage)
                     ELSE [ls |-> localStorage,
                           settled |-> Rejected(ApiError(
                               <<"No", "refresh", "token", "available">>,
                               Some(401), "NO_REFRESH_TOKEN", None)),
                           caught |-> FALSE]
            IN  /\ localStorage' = f.ls
                /\ calls' = [calls EXCEPT ![c] =
                        [IdleCall EXCEPT
                            !.pc = "done", !.via = via,
                            !.issuedUnder = apiClientConfig,
                            !.lsBefore = localStorage,
                            !.lsAfter = localStorage,
                            !.final = Some(f.settled)]]
       ELSE /\ UNCHANGED localStorage
            /\ calls' = [calls EXCEPT ![c] =
                    [IdleCall EXCEPT
                        !.pc = "sent", !.via = via, !.attempts = 1,
                        !.issuedUnder = apiClientConfig,
                        !.config = requestInterceptor(
                            RequestConfig(FacadePath[via]), localStorage, now,
                            rnd)]]
    /\ UNCHANGED <<now, apiClientConfig, backend>>

\* The answer to the attempt in flight arrives: a 2xx response passes the
\* response interceptor, anything else the response error interceptor.
Respond(c, ans) ==
    /\ ~Microtask
    /\ calls[c].pc = "sent"
    /\ IF ans.response # None /\ validateStatus(ans.response[1].status)
       THEN /\ calls' = [calls EXCEPT ![c].pc = "settling",
                            ![c].last = Some(ans),
                            ![c].lsBefore = localStorage,
                            ![c].lsAfter = localStorage,
                            ![c].result = Some(Resolved(
                                responseInterceptor(ans.response[1])))]
            /\ UNCHANGED localStorage
       ELSE LET r == responseErrorInterceptor(
                        AxiosError(calls[c].config, ans.response, ans.code,
                                   ans.message),
                        apiClientConfig, localStorage)
            IN  /\ localStorage' = r.ls
                /\ IF r.kind = "retry"
                   THEN calls' = [calls EXCEPT
                            ![c].pc = "backoff",
                            ![c].serverErrors = @ + 1,
                            ![c].failedAt = now,
                            ![c].last = Some(ans),
                            ![c].lsBefore = localStorage,
                            ![c].lsAfter = r.ls,
                            ![c].config = r.request,
                            ![c].wakeAt = DateNow(now) + r.delay,
                            ![c].waits = Append(@, r.delay),
                            ![c].effects = @ \o r.effects]
                   ELSE calls' = [calls EXCEPT
                            ![c].pc = "settling",
                            ![c].serverErrors =
                                IF StatusOf(ans) >= 500 THEN @ + 1 ELSE @,
                            ![c].last = Some(ans),
                            ![c].lsBefore = localStorage,
                            ![c].lsAfter = r.ls,
                            ![c].effects = @ \o r.effects,
                            ![c].result = Some(Rejected(r.thrown[1]))]
    /\ UNCHANGED <<now, apiClientConfig, backend>>

\* The backoff timer fired: apiClient(originalRequest), through the request
\* interceptor again.
Resubmit(c, rnd) ==
    /\ ~Microtask
    /\ calls[c].pc = "backoff"
    /\ DateNow(now) >= calls[c].wakeAt
    /\ calls' = [calls EXCEPT
            ![c].pc = "sent",
            ![c].attempts = @ + 1,
            ![c].config = requestInterceptor(@, localStorage, now, rnd)]
    /\ UNCHANGED <<now, localStorage, apiClientConfig, backend>>

\* The client's promise settled: the facade's code after the await, or its
\* catch block, runs.  `fault` is the write the backend refuses if the facade
\* saves.
Settle(c, fault) ==
    /\ calls[c].pc = "settling"
    /\ LET res == calls[c].result[1]
           saves == res.ok /\ ~res.value[1].null /\ calls[c].via \in Savers
           f == IF res.ok
                THEN FacadeThen(calls[c].via, res.value[1], localStorage, now,
                                fault)
                ELSE FacadeCatch(calls[c].via, res.error[1], localStorage)
       IN  /\ saves \/ fault = NoFault
           /\ localStorage' = f.ls
           /\ calls' = [calls EXCEPT ![c].pc = "done",
                                     ![c].final = Some(f.settled),
                                     ![c].fault = fault,
                                     ![c].caught = f.caught]
    /\ UNCHANGED <<now, apiClientConfig, backend>>

\* The application calls setTokens itself (as storeTokensFromOAuth does).
SetTokens(c, data, fault) ==
    /\ ~Microtask
    /\ calls[c].pc = "idle"
    /\ localStorage' = setTokens(localStorage, data, now, fault)
    /\ calls' = [calls EXCEPT ![c] =
            [IdleCall EXCEPT
                !.pc = "returned", !.via = "setTokens", !.arg = Some(data),
                !.at = now, !.times = 1, !.fault = fault,
                !.caught = setTokensCaught(data, fault),
                !.lsBefore = localStorage,
                !.lsAfter = setTokens(localStorage, data, now, fault),
                !.final = Some(Resolved(NoBody))]]
    /\ UNCHANGED <<now, apiClientConfig, backend>>

\* The application calls clearTokens itself, once or again right after.
ClearTokens(c) ==
    /\ ~Microtask
    /\ \/ calls[c].pc = "idle"
       \/ /\ calls[c].pc = "returned"
          /\ calls[c].via = "clearTokens"
          /\ calls[c].times < MaxRepeat
    /\ localStorage' = clearTokens(localStorage)
    /\ calls' = [calls EXCEPT ![c] =
            [IdleCall EXCEPT
                !.pc = "returned", !.via = "clearTokens", !.at = now,
                !.times = calls[c].times + 1,
                !.lsBefore = localStorage,
                !.lsAfter = clearTokens(localStorage),
                !.final = Some(Resolved(NoBody))]]
    /\ UNCHANGED <<now, apiClientConfig, backend>>

\* The application has the result; the descriptor is dropped.
Finish(c) ==
    /\ calls[c].pc \in {"done", "returned"}
    /\ calls' = [calls EXCEPT ![c] = IdleCall]
    /\ UNCHANGED <<now, localStorage, apiClientConfig, backend>>

\* The clock is read by isTokenExpired and by the backoff timers only: it is
\* advanced while a timer or a stored expiry instant still lies ahead.
TimeMatters ==
    \/ \E c \in Calls :
            calls[c].pc = "backoff" /\ calls[c].wakeAt > DateNow(now)
    \/ /\ getItem(localStorage, TOKEN_EXPIRY_KEY) # None
       /\ ~isTokenExpired(localStorage, now)

Tick ==
    /\ ~Microtask
    /\ now < MaxTime
    /\ TimeMatters
    /\ now' = now + 1
    /\ UNCHANGED <<localStorage, apiClientConfig, calls, backend>>

Configure(partial) ==
    /\ ~Microtask
    /\ apiClientConfig' = configureApiClient(apiClientConfig, partial)
    /\ UNCHANGED <<now, localStorage, calls, backend>>

Next ==
    \/ \E c \in Calls, via \in Facades, rnd \in OneRandom : Request(c, via, rnd)
    \/ \E c \in Calls : \E ans \in Answers(calls[c].via) : Respond(c, ans)
    \/ \E c \in Calls, rnd \in OneRandom : Resubmit(c, rnd)
    \/ \E c \in Calls : Settle(c, NoFault)
    \/ \E c \in Calls : Finish(c)
    \/ Tick
    \/ \E partial \in Partials : Configure(partial)

\* A session over a backend that accepts every write.
Spec == Init /\ [][Next]_vars

\* The application at large, over its first MaxAppTime seconds: every
\* facade, the token manager called directly, any callback set, a backend
\* that may refuse a write, and answers that are not retried.
AppNext ==
    \/ \E c \in Calls, via \in AllFacades, rnd \in OneRandom :
            Request(c, via, rnd)
    \/ \E c \in Calls : \E ans \in AppAnswers(calls[c].via) : Respond(c, ans)
    \/ \E c \in Calls, fault \in Faults : Settle(c, fault)
    \/ \E c \in Calls : Finish(c)
    \/ \E c \in Calls, data \in TokenInputs, fault \in Faults :
            SetTokens(c, data, fault)
    \/ \E c \in Calls : ClearTokens(c)
    \/ now < MaxAppTime /\ Tick
    \/ \E partial \in AppPartials : Configure(partial)

AppSpec == Init /\ [][AppNext]_vars

\* The seconds a call may spend in backoff: 1 + 2 + 4.
RetrySpan ==
    (backoffDelay(0) + backoffDelay(1) + backoffDelay(2)) \div 1000

LiveFacades == {"login", "logout", "getAllBlogs"}

LiveAnswers(via) ==
    {Answer(Some(Response(200, b, None)), "", <<>>) : b \in SuccessBodies(via)}
    \cup {Answer(Some(Response(st, NoBody, None)),
                 IF st >= 500 THEN "ERR_BAD_RESPONSE" ELSE "ERR_BAD_REQUEST",
                 MSG_STATUS) :
            st \in {401, 404, 500, 503}}
    \cup {Answer(None, "ECONNABORTED", MSG_TIMEOUT)}

\* The steps of a call one after the other, for calls made early enough that
\* the clock can see them through their backoff.
LiveRequest == \E c \in Calls, via \in LiveFacades, rnd \in OneRandom :
                    now + RetrySpan <= MaxTime /\ Request(c, via, rnd)
LiveRespond == \E c \in Calls : \E ans \in LiveAnswers(calls[c].via) :
                    Respond(c, ans)
LiveResubmit == \E c \in Calls, rnd \in OneRandom : Resubmit(c, rnd)
LiveSettle == \E c \in Calls : Settle(c, NoFault)
LiveFinish == \E c \in Calls : Finish(c)

\* The clock is followed through the backoff delays; an answer arrives
\* within the second its attempt was sent in.
LiveTick ==
    /\ \E c \in Calls :
            calls[c].pc = "backoff" /\ calls[c].wakeAt > DateNow(now)
    /\ Tick

LiveNext ==
    \/ LiveRequest
    \/ LiveRespond
    \/ LiveResubmit
    \/ LiveSettle
    \/ LiveFinish
    \/ LiveTick

\* Every attempt is answered in the end (by a response, a timeout or a
\* transport failure), timers fire, promise continuations run, time passes.
LiveSpec ==
    /\ Init
    /\ [][LiveNext]_vars
    /\ WF_vars(LiveRespond)
    /\ WF_vars(LiveResubmit)
    /\ WF_vars(LiveSettle)
    /\ WF_vars(LiveFinish)
    /\ WF_vars(LiveTick)

\* ----------------------------------------------------------------- claims
\* The client's promise of call c has settled: its caller has the outcome.
Received(c) == calls[c].pc \in {"settling", "done"} /\ calls[c].last # None

\* The outcome has just reached the caller; the caller has not run yet.
Receiving(c) == calls[c].pc = "settling"

LastStatus(c) == StatusOf(calls[c].last[1])

Thrown(c) == calls[c].result[1].error[1]

CountOp(effects, ops) == Cardinality({i \in 1..Len(effects) : effects[i].op \in ops})

CallbackOps == {"onUnauthorized", "onForbidden", "onRateLimit"}

AuthEndpoints ==
    {<<"api", "v1", "auth", "login">>, <<"api", "v1", "auth", "register">>,
     <<"api", "v1", "auth", "refresh">>}

KindTags ==
    {"UNAUTHORIZED", "FORBIDDEN", "NOT_FOUND", "VALIDATION_ERROR",
     "RATE_LIMIT_EXCEEDED", "SERVER_ERROR", "TIMEOUT", "NETWORK_ERROR",
     "UNKNOWN_ERROR"}

\* The delays the specification names, in milliseconds.
Backoffs == <<1000, 2000, 4000>>

\* C1: a call whose every attempt is answered with a status of 500 or more
\* is resubmitted exactly 3 times, no earlier than 1s, 2s and 4s after the
\* 1st, 2nd and 3rd failure, and its 4th failure throws SERVER_ERROR.
C1_RetryThenServerError ==
    \A c \in Calls :
        LET k == calls[c]
        IN  /\ k.attempts <= 4
            /\ k.pc = "backoff" =>
                /\ k.attempts <= 3
                /\ k.waits = SubSeq(Backoffs, 1, k.attempts)
                /\ k.wakeAt = DateNow(k.failedAt) + Backoffs[k.attempts]
            /\ (k.pc = "sent" /\ k.attempts > 1) =>
                /\ k.waits = SubSeq(Backoffs, 1, k.attempts - 1)
                /\ DateNow(now) - DateNow(k.failedAt) >= Backoffs[k.attempts - 1]
            /\ (Received(c) /\ k.serverErrors = k.attempts) =>
                /\ k.attempts = 4
                /\ k.waits = Backoffs
                /\ ~k.result[1].ok
                /\ Thrown(c).code = "SERVER_ERROR"
                /\ Thrown(c).statusCode = Some(LastStatus(c))

\* Four answers of 500 or more in a row, the last one thrown, 7s after the
\* first.
C1_Witness ==
    \E c \in Calls :
        /\ Receiving(c)
        /\ calls[c].attempts = 4
        /\ calls[c].serverErrors = 4
        /\ Thrown(c).code = "SERVER_ERROR"
        /\ now >= 7

\* The Authorization header the store calls for at instant t.
ExpectedAuthorization(ls, t) ==
    IF getAccessToken(ls) # None /\ ~isTokenExpired(ls, t)
    THEN Some(Bearer(getAccessToken(ls)[1]))
    ELSE None

\* C2: whenever a request is sent (first attempt or resubmission) it carries
\* 'Bearer <token>' if and only if the store holds a token that is not
\* expired at that moment, and no Authorization header otherwise.
C2_AuthorizationFollowsStore ==
    [][\A c \in Calls :
        (calls[c].pc # "sent" /\ calls'[c].pc = "sent") =>
            calls'[c].config.headers["Authorization"]
                = ExpectedAuthorization(localStorage', now')]_vars

\* C3: when a call to a path other than login, register and refresh is
\* answered 401, then as the caller receives the error the store is empty,
\* isAuthenticated() is false, the configured unauthenticated callback ran
\* exactly once, and the error is UNAUTHORIZED with status 401.
C3_UnauthorizedClearsSession ==
    \A c \in Calls :
        (Receiving(c) /\ LastStatus(c) = 401
         /\ calls[c].config.url \notin AuthEndpoints) =>
            /\ localStorage = EmptyStorage
            /\ ~isAuthenticated(localStorage, now)
            /\ CountOp(calls[c].effects, {"onUnauthorized"}) = 1
            /\ \E i \in 1..Len(calls[c].effects) :
                    calls[c].effects[i]
                        = Ev("onUnauthorized", apiClientConfig.onUnauthorized[1],
                             None)
            /\ ~calls[c].result[1].ok
            /\ Thrown(c).name = "ApiError"
            /\ Thrown(c).code = "UNAUTHORIZED"
            /\ Thrown(c).statusCode = Some(401)

\* A 401 on /auth/me found a live session and ended it.
C3_Witness ==
    \E c \in Calls :
        /\ Receiving(c)
        /\ LastStatus(c) = 401
        /\ calls[c].via = "getCurrentUser"
        /\ getAccessToken(calls[c].lsBefore) # None
        /\ getRefreshToken(calls[c].lsBefore) # None
        /\ localStorage = EmptyStorage

\* C4: when a call to /auth/login, /auth/register or /auth/refresh is
\* answered 401, the response error interceptor leaves the store as it found
\* it and invokes no callback; it only throws UNAUTHORIZED.
C4_AuthRouteKeepsSession ==
    \A c \in Calls :
        (Received(c) /\ LastStatus(c) = 401
         /\ calls[c].config.url \in AuthEndpoints) =>
            /\ calls[c].lsAfter = calls[c].lsBefore
            /\ Receiving(c) => localStorage = calls[c].lsBefore
            /\ calls[c].effects = <<Ev("throw", "UNAUTHORIZED", None)>>
            /\ Thrown(c).code = "UNAUTHORIZED"

\* A 401 on /auth/refresh while a session is stored.
C4_Witness ==
    \E c \in Calls :
        /\ Receiving(c)
        /\ LastStatus(c) = 401
        /\ calls[c].via = "refreshAccessToken"
        /\ getAccessToken(localStorage) # None

\* What the callback is to receive for each Retry-After header: nothing for
\* a missing or empty header, the seconds of "30" and of "0", and not-a-number
\* for a header that states a date.
StatedSeconds(retryAfter) ==
    IF retryAfter = Some(<<"3", "0">>) THEN Some(Num(30))
    ELSE IF retryAfter = Some(<<"0">>) THEN Some(Num(0))
    ELSE IF retryAfter = Some(<<"W", "e", "d">>) THEN Some(NaN)
    ELSE None

\* C5: a 429 is not resubmitted; the configured rate-limit callback runs
\* exactly once, with the seconds of the Retry-After header or with nothing
\* when the header is missing; the store is unchanged; the error is
\* RATE_LIMIT_EXCEEDED.
C5_RateLimitReported ==
    \A c \in Calls :
        (calls[c].last # None /\ LastStatus(c) = 429) =>
            LET k == calls[c]
                ra == k.last[1].response[1].headers["retry-after"]
                fn == apiClientConfig.onRateLimit
            IN  /\ k.pc \in {"settling", "done"}
                /\ k.lsAfter = k.lsBefore
                /\ Thrown(c).code = "RATE_LIMIT_EXCEEDED"
                /\ CountOp(k.effects, {"clearTokens", "onUnauthorized",
                                       "onForbidden"}) = 0
                /\ Receiving(c) =>
                    /\ localStorage = k.lsBefore
                    /\ CountOp(k.effects, {"onRateLimit"})
                            = IF fn = None THEN 0 ELSE 1
                    /\ fn # None =>
                            k.effects[1] = Ev("onRateLimit", fn[1], StatedSeconds(ra))

\* A 429 with Retry-After: 30 reached the configured callback.
C5_Witness ==
    \E c \in Calls :
        /\ Receiving(c)
        /\ LastStatus(c) = 429
        /\ calls[c].last[1].response[1].headers["retry-after"] = Some(<<"3", "0">>)
        /\ CountOp(calls[c].effects, {"onRateLimit"}) = 1

\* C6: a request is resubmitted only after a status of 500 or more; after
\* any status below 500, a timeout or a missing response the call gets no
\* further attempt (so a 401 is never followed by a refresh and a retry).
C6_RetryOnlyServerErrors ==
    \A c \in Calls :
        LET k == calls[c]
        IN  /\ k.serverErrors >= k.attempts - 1
            /\ k.pc = "backoff" => LastStatus(c) >= 500
            /\ (k.last # None /\ LastStatus(c) < 500) =>
                    k.pc \in {"settling", "done"}
            /\ (k.pc = "sent" /\ k.last # None) => LastStatus(c) >= 500

\* A 401 that followed a retried 500 ended the call at its second attempt.
C6_Witness ==
    \E c \in Calls :
        /\ Receiving(c)
        /\ LastStatus(c) = 401
        /\ calls[c].attempts = 2

\* C7: every call that does not end with a 2xx response ends by throwing
\* exactly one ApiError with a kind tag to its caller: never a value, never
\* nothing, never an unclassified error.
C7_FailureIsOneClassifiedError ==
    \A c \in Calls :
        LET k == calls[c]
        IN  /\ (Received(c) /\ ~validateStatus(LastStatus(c))) =>
                /\ ~k.result[1].ok
                /\ k.result[1].value = None
                /\ Thrown(c).name = "ApiError"
                /\ Thrown(c).code \in KindTags
                /\ CountOp(k.effects, {"throw"}) = 1
            /\ (k.last # None /\ ~validateStatus(LastStatus(c))
                /\ ~(LastStatus(c) >= 500 /\ k.serverErrors <= 3)) =>
                    Received(c)
            /\ (Received(c) /\ k.result[1].ok) => validateStatus(LastStatus(c))

\* A call that got no response at all threw NETWORK_ERROR.
C7_Witness ==
    \E c \in Calls :
        /\ Receiving(c)
        /\ calls[c].last[1].response = None
        /\ calls[c].last[1].code = "ERR_NETWORK"
        /\ Thrown(c).code = "NETWORK_ERROR"

\* C8: for a failed call, clearing the credentials and invoking a callback
\* happen at most once each and before the error is thrown; an attempt
\* answered 500 or more and retried invokes no callback and leaves the
\* store as it was.
C8_SideEffectsOnceBeforeThrow ==
    \A c \in Calls :
        LET k == calls[c]
            e == k.effects
        IN  /\ CountOp(e, {"clearTokens"}) <= 1
            /\ CountOp(e, CallbackOps) <= 1
            /\ \A i \in 1..Len(e) : e[i].op = "throw" => i = Len(e)
            /\ k.pc \in {"sent", "backoff"} => e = <<>>
            /\ k.pc = "backoff" => k.lsAfter = k.lsBefore
            /\ (k.pc = "sent" /\ k.attempts > 1) => k.lsAfter = k.lsBefore

\* A 401 after a retried 500: the store was cleared and the callback called,
\* both before the throw.
C8_Witness ==
    \E c \in Calls :
        /\ Receiving(c)
        /\ calls[c].attempts = 2
        /\ getAccessToken(calls[c].lsBefore) # None
        /\ Len(calls[c].effects) = 3
        /\ calls[c].effects[1].op = "clearTokens"
        /\ calls[c].effects[2].op = "onUnauthorized"
        /\ calls[c].effects[3].op = "throw"

\* C9: a 2xx answer to any attempt resolves the call to the response body
\* itself, changes nothing in the store and invokes no callback.
C9_SuccessResolvesToBody ==
    \A c \in Calls :
        (Received(c) /\ validateStatus(LastStatus(c))) =>
            LET k == calls[c]
            IN  /\ k.result[1].ok
                /\ k.result[1].value = Some(k.last[1].response[1].data)
                /\ k.effects = <<>>
                /\ k.lsAfter = k.lsBefore
                /\ Receiving(c) => localStorage = k.lsBefore

\* A call resolved to the body of its third attempt.
C9_Witness ==
    \E c \in Calls :
        /\ Receiving(c)
        /\ validateStatus(LastStatus(c))
        /\ calls[c].attempts = 3
        /\ calls[c].result[1].value[1].data = Some("blogs")

\* The kind tag the specification gives each terminal outcome.
ExpectedKind(ans) ==
    IF ans.response # None
    THEN LET st == ans.response[1].status
         IN  IF st = 400 THEN "VALIDATION_ERROR"
             ELSE IF st = 401 THEN "UNAUTHORIZED"
             ELSE IF st = 403 THEN "FORBIDDEN"
             ELSE IF st = 404 THEN "NOT_FOUND"
             ELSE IF st = 429 THEN "RATE_LIMIT_EXCEEDED"
             ELSE IF st >= 500 THEN "SERVER_ERROR"
             ELSE "UNKNOWN_ERROR"
    ELSE IF ans.message = MSG_TIMEOUT THEN "TIMEOUT"
    ELSE "NETWORK_ERROR"

\* C10: the kind tag is a function of the terminal outcome (400, 401, 403,
\* 404, 429, exhausted 5xx, timeout, no response, anything else with its
\* status); 400 and 404 change no credential and invoke no callback, 403
\* invokes the forbidden callback only and changes no credential.
C10_KindFollowsOutcome ==
    \A c \in Calls :
        (Received(c) /\ ~validateStatus(LastStatus(c))) =>
            LET k == calls[c]
                kind == ExpectedKind(k.last[1])
            IN  /\ Thrown(c).code = kind
                /\ kind = "UNKNOWN_ERROR" =>
                        Thrown(c).statusCode = Some(LastStatus(c))
                /\ kind \in {"TIMEOUT", "NETWORK_ERROR"} =>
                        Thrown(c).statusCode = None
                /\ kind = "SERVER_ERROR" => k.attempts = 4
                /\ LastStatus(c) \in {400, 404} =>
                        /\ k.effects = <<Ev("throw", kind, None)>>
                        /\ k.lsAfter = k.lsBefore
                /\ LastStatus(c) = 403 =>
                        /\ k.effects
                            = <<Ev("onForbidden", apiClientConfig.onForbidden[1], None),
                                Ev("throw", kind, None)>>
                        /\ k.lsAfter = k.lsBefore

\* A timeout was thrown as TIMEOUT while a session was stored.
C10_Witness ==
    \E c \in Calls :
        /\ Receiving(c)
        /\ calls[c].last[1].response = None
        /\ calls[c].last[1].message = MSG_TIMEOUT
        /\ Thrown(c).code = "TIMEOUT"
        /\ getAccessToken(localStorage) # None

\* --------------------------------------------------- claims: the token manager
\* The instants, in seconds, an expiry can be stored for.
Instants == 0..(MaxTime + MaxTime)

\* The stored expiry instant lies at or before second t: the slot holds the
\* decimal numeral of some instant k <= t, in milliseconds.
ExpiryReached(ls, t) ==
    /\ getItem(ls, TOKEN_EXPIRY_KEY) # None
    /\ \E k \in Instants :
            /\ getItem(ls, TOKEN_EXPIRY_KEY) = Some(toString(k * 1000))
            /\ k <= t

\* A token manager function the application called itself has returned.
Returned(c, fn) == calls[c].pc = "returned" /\ calls[c].via = fn

\* C11: in every reachable state and at every instant, isAuthenticated() is
\* true if and only if an access token is stored and isTokenExpired() is
\* false.
C11_AuthenticatedIffTokenNotExpired ==
    \A t \in Instants :
        isAuthenticated(localStorage, t)
            <=> (getAccessToken(localStorage) # None
                 /\ ~isTokenExpired(localStorage, t))

\* A token is stored, its expiry has passed, isAuthenticated() is false.
C11_Witness ==
    /\ getAccessToken(localStorage) # None
    /\ isTokenExpired(localStorage, now)
    /\ ~isAuthenticated(localStorage, now)
    /\ now > 0

C13_SaveThenExpire ==
    \A c \in Calls :
        (Returned(c, "setTokens") /\ calls[c].fault = NoFault
         /\ TruthyNum(calls[c].arg[1].expiresIn)) =>
            LET k == calls[c]
                n == k.arg[1].expiresIn[1]
            IN  /\ localStorage = k.lsAfter
                /\ getAccessToken(localStorage) = Some(k.arg[1].accessToken)
                /\ isAuthenticated(localStorage, k.at)
                /\ \A t \in Instants :
                        t >= k.at + n =>
                            /\ isTokenExpired(localStorage, t)
                            /\ ~isAuthenticated(localStorage, t)
                /\ now >= k.at + n =>
                        /\ isTokenExpired(localStorage, now)
                        /\ ~isAuthenticated(localStorage, now)

\* A save over an older credential, and n seconds have gone by since.
C13_Witness ==
    \E c \in Calls :
        /\ Returned(c, "setTokens")
        /\ calls[c].fault = NoFault
        /\ calls[c].arg[1].expiresIn = Some(1)
        /\ getAccessToken(calls[c].lsBefore) # None
        /\ getItem(calls[c].lsBefore, TOKEN_EXPIRY_KEY) # None
        /\ now = calls[c].at + 1
        /\ isTokenExpired(localStorage, now)

\* C14: after setTokens(record) with no expiresIn, on a backend that accepts
\* the writes, no expiry instant is stored and isTokenExpired() is false,
\* whatever was stored before.
C14_SaveWithoutExpiryNeverExpires ==
    \A c \in Calls :
        (Returned(c, "setTokens") /\ calls[c].fault = NoFault
         /\ calls[c].arg[1].expiresIn = None) =>
            /\ getItem(localStorage, TOKEN_EXPIRY_KEY) = None
            /\ \A t \in Instants : ~isTokenExpired(localStorage, t)

\* The credential the store is to hold after a save of `data` at second t.
CredentialOf(data, t) ==
    [k \in StorageKeys |->
        IF k = TOKEN_KEY THEN data.accessToken
        ELSE IF k = REFRESH_TOKEN_KEY THEN data.refreshToken
        ELSE IF data.expiresIn = None THEN None
        ELSE Some(toString((t + data.expiresIn[1]) * 1000))]

\* The facade of call c has returned or thrown to the application.
Done(c) == calls[c].pc = "done" /\ calls[c].result # None

\* The client handed the facade of call c a body that is not null.
GotBody(c) == calls[c].result[1].ok /\ ~calls[c].result[1].value[1].null

\* C15: after a successful refresh the three stored fields are those of the
\* refresh response; a field the response omits is absent afterwards.
C15_RefreshReplacesAllFields ==
    \A c \in Calls :
        (Done(c) /\ calls[c].via = "refreshAccessToken" /\ GotBody(c)
         /\ calls[c].fault = NoFault) =>
            /\ calls[c].final[1].ok
            /\ localStorage = CredentialOf(calls[c].final[1].value[1], now)

\* C16: when the backend refuses a write during setTokens, no exception
\* reaches the caller (login, register and refreshAccessToken return their
\* payload) and the store is as it was before the save.
C16_FailedSaveChangesNothing ==
    \A c \in Calls :
        /\ (Done(c) /\ calls[c].via \in Savers /\ calls[c].caught) =>
                /\ calls[c].final[1].ok
                /\ localStorage = calls[c].lsAfter
        /\ (Returned(c, "setTokens") /\ calls[c].caught) =>
                /\ calls[c].final[1].ok
                /\ localStorage = calls[c].lsBefore

\* C17: clearTokens() removes the access token, the refresh token and the
\* expiry instant; a second call right after the first leaves the same
\* empty store, neither call throws, and isAuthenticated() is false after
\* each.
C17_ClearIsIdempotent ==
    \A c \in Calls :
        Returned(c, "clearTokens") =>
            /\ localStorage = EmptyStorage
            /\ calls[c].lsAfter = EmptyStorage
            /\ calls[c].final[1].ok
            /\ \A t \in Instants : ~isAuthenticated(localStorage, t)
            /\ clearTokens(localStorage) = localStorage
            /\ calls[c].times >= 2 => calls[c].lsBefore = calls[c].lsAfter

\* The first call emptied a full store.
C17_WitnessOnce ==
    \E c \in Calls :
        /\ Returned(c, "clearTokens")
        /\ calls[c].times = 1
        /\ \A k \in StorageKeys : getItem(calls[c].lsBefore, k) # None

\* clearTokens() was called twice in a row.
C17_Witness ==
    \E c \in Calls :
        /\ Returned(c, "clearTokens")
        /\ calls[c].times = 2
        /\ localStorage = EmptyStorage

\* ------------------------------------------------------ claims: the callbacks
\* The callback event the interceptor is to log for `key` under `cfg`.
CallbackEvents(key, cfg, arg) ==
    IF cfg[key] = None THEN <<>> ELSE <<Ev(key, cfg[key][1], arg)>>

\* The callback events of call c, the throw left out.
CallbackLog(c) ==
    SelectSeq(calls[c].effects, LAMBDA e : e.op \in CallbackOps)

\* C18: configureApiClient(partial) replaces exactly the callbacks partial
\* sets and leaves the others as they were; applying the same partial twice
\* gives what applying it once gives; and the interceptor invokes the
\* callback configured when the 401, 403 or 429 is classified, not the one
\* configured when the call was made.
C18_ConfigureMergesAndIsReadLate ==
    [][/\ apiClientConfig' # apiClientConfig =>
            \E p \in AppPartials :
                \A k \in DOMAIN apiClientConfig :
                    apiClientConfig'[k]
                        = IF k \in DOMAIN p THEN p[k] ELSE apiClientConfig[k]
       /\ \A p \in AppPartials :
            LET once == configureApiClient(apiClientConfig, p)
            IN  /\ configureApiClient(once, p) = once
                /\ \A k \in DOMAIN apiClientConfig :
                        once[k] = IF k \in DOMAIN p THEN p[k]
                                  ELSE apiClientConfig[k]
       /\ \A c \in Calls :
            (calls[c].pc = "sent" /\ calls'[c].pc = "settling") =>
                LET st == StatusOf(calls'[c].last[1])
                    log == SelectSeq(calls'[c].effects,
                                     LAMBDA e : e.op \in CallbackOps)
                IN  /\ (st = 401 /\ calls[c].config.url \notin AuthEndpoints) =>
                        log = CallbackEvents("onUnauthorized", apiClientConfig,
                                             None)
                    /\ st = 403 =>
                        log = CallbackEvents("onForbidden", apiClientConfig, None)
                    /\ st = 429 =>
                        log = CallbackEvents("onRateLimit", apiClientConfig,
                                             Some(Num(30)))
      ]_vars

\* A 403 invoked the callback that was configured while the call was in
\* flight, the unauthenticated callback being left at its default.
C18_Witness ==
    \E c \in Calls :
        /\ Receiving(c)
        /\ LastStatus(c) = 403
        /\ calls[c].issuedUnder = DefaultConfig
        /\ apiClientConfig.onForbidden = Some("custom:forbidden")
        /\ apiClientConfig.onUnauthorized = DefaultConfig.onUnauthorized
        /\ CallbackLog(c) = <<Ev("onForbidden", "custom:forbidden", None)>>

\* -------------------------------------------------------- claims: the facades
\* The nine facade methods that throw what they catch.
Rethrowers == AllFacades \ {"logout"}

FacadeTags ==
    {"LOGIN_ERROR", "REGISTER_ERROR", "REFRESH_ERROR", "PROFILE_ERROR",
     "UPDATE_PROFILE_ERROR", "FETCH_BLOGS_ERROR", "BLOG_NOT_FOUND",
     "FETCH_TAGS_ERROR"}

\* C19: every facade method throws an ApiError of the client on unchanged
\* (same kind tag, status and message) and replaces only a failure that is
\* not an ApiError by its own ApiError with its own tag; a 404 on getBlogById
\* reaches the caller as NOT_FOUND, and BLOG_NOT_FOUND arises only from a
\* failure that is not an ApiError.
C19_FacadesRethrowClassified ==
    \A c \in Calls :
        (Done(c) /\ calls[c].via \in Rethrowers) =>
            LET k == calls[c]
                res == k.result[1]
                fin == k.final[1]
            IN  /\ Cardinality(Rethrowers) = 9
                /\ ~res.ok =>
                    /\ ~fin.ok
                    /\ fin.error = res.error
                    /\ fin.error[1].code \in KindTags
                /\ (res.ok /\ ~fin.ok) =>
                    /\ res.value[1].null
                    /\ fin.error[1] = FacadeError(k.via)
                    /\ fin.error[1].name = "ApiError"
                    /\ fin.error[1].code \in FacadeTags
                /\ (res.ok /\ ~res.value[1].null) => fin.ok
                /\ (k.via = "getBlogById" /\ LastStatus(c) = 404) =>
                    /\ ~fin.ok
                    /\ fin.error[1].code = "NOT_FOUND"
                    /\ fin.error[1].statusCode = Some(404)
                /\ (~fin.ok /\ fin.error[1].code = "BLOG_NOT_FOUND") => res.ok

\* getBlogById answered 404 threw NOT_FOUND to the application.
C19_Witness ==
    \E c \in Calls :
        /\ Done(c)
        /\ calls[c].via = "getBlogById"
        /\ LastStatus(c) = 404
        /\ calls[c].final[1].error[1].code = "NOT_FOUND"

\* getBlogBySlug answered 200 with a null body threw BLOG_NOT_FOUND.
C19_WitnessWrapped ==
    \E c \in Calls :
        /\ Done(c)
        /\ calls[c].via = "getBlogBySlug"
        /\ calls[c].result[1].ok
        /\ ~calls[c].final[1].ok
        /\ calls[c].final[1].error[1].code = "BLOG_NOT_FOUND"

\* C20: as login or register returns a response whose expiresIn is absent
\* or positive (the backend accepting the writes), getAccessToken() is the
\* returned accessToken and isAuthenticated() is true; as login or register
\* throws an ApiError, the store is as it was before the call.
C20_LoginSavesBeforeReturning ==
    \A c \in Calls :
        (Done(c) /\ calls[c].via \in {"login", "register"}) =>
            LET k == calls[c]
            IN  /\ (GotBody(c) /\ k.fault = NoFault
                    /\ (k.result[1].value[1].expiresIn = None
                        \/ k.result[1].value[1].expiresIn[1] > 0)) =>
                        /\ k.final[1].ok
                        /\ getAccessToken(localStorage)
                                = k.final[1].value[1].accessToken
                        /\ isAuthenticated(localStorage, now)
                /\ ~k.final[1].ok => localStorage = k.lsBefore

\* ------------------------------------------------- claims: logout, liveness
\* C21: logout() never throws and ends with the store empty and
\* isAuthenticated() false, whatever answered its backend call (a 2xx, any
\* ApiError, retries exhausted); without a stored refresh token it clears
\* the store and sends nothing.
C21_LogoutAlwaysClears ==
    \A c \in Calls :
        LET k == calls[c]
        IN  (k.via = "logout" /\ k.pc = "done") =>
                /\ k.final[1].ok
                /\ k.final[1].error = None
                /\ localStorage = EmptyStorage
                /\ \A t \in 0..(MaxTime + MaxTime) :
                        ~isAuthenticated(localStorage, t)
                /\ ~TruthyStr(getRefreshToken(k.lsBefore)) <=> k.attempts = 0
                /\ k.attempts = 0 => (k.last = None /\ k.result = None)

\* logout returned after its backend call had used up its retries, the
\* session still being stored until then.
C21_Witness ==
    \E c \in Calls :
        /\ calls[c].via = "logout"
        /\ calls[c].pc = "done"
        /\ calls[c].attempts = 4
        /\ calls[c].serverErrors = 4
        /\ getAccessToken(calls[c].lsAfter) # None
        /\ localStorage = EmptyStorage

\* logout without a refresh token cleared a stored access token and sent
\* nothing.
C21_WitnessNoCall ==
    \E c \in Calls :
        /\ calls[c].via = "logout"
        /\ calls[c].pc = "done"
        /\ calls[c].attempts = 0
        /\ getAccessToken(calls[c].lsBefore) # None
        /\ localStorage = EmptyStorage

\* The retry counter of a descriptor.
RetryCount(config) ==
    IF config._retryCount = None THEN 0 ELSE config._retryCount[1]

\* C24: provided every attempt is answered in the end, every call that was
\* sent ends with a payload or an ApiError; it makes at most 4 attempts; its
\* retry counter only grows and stays at or below 3; and once it has
\* settled it is not sent again.
C24_EveryCallResolves ==
    /\ \A c \in Calls :
            (calls[c].pc = "sent") ~>
                (/\ calls[c].pc = "done"
                 /\ \/ calls[c].final[1].ok
                    \/ calls[c].final[1].error[1].name = "ApiError")
    /\ [](\A c \in Calls :
            /\ calls[c].attempts <= 4
            /\ RetryCount(calls[c].config) <= 3)
    /\ [][\A c \in Calls :
            /\ (calls[c].pc \in {"sent", "backoff"} /\ calls'[c].pc # "idle") =>
                    RetryCount(calls'[c].config) >= RetryCount(calls[c].config)
            /\ calls[c].pc \in {"settling", "done"} =>
                    calls'[c].pc \in {"done", "idle"}
            /\ calls'[c].attempts > calls[c].attempts =>
                    calls[c].pc \in {"idle", "backoff"}]_vars

\* A call ended with SERVER_ERROR after its fourth attempt.
C24_Witness ==
    \E c \in Calls :
        /\ Done(c)
        /\ calls[c].attempts = 4
        /\ RetryCount(calls[c].config) = 3
        /\ ~calls[c].final[1].ok
        /\ calls[c].final[1].error[1].code = "SERVER_ERROR"

\* ------------------------------------------------------- two calls in flight
\* Two requests in flight at once, over the first MaxConcTime seconds: both
\* go through the one client and the one store, their answers arrive in any
\* order, and each call is served at most MaxConcErrors server errors.
MaxConcTime == 3
MaxConcErrors == 1

ConcFacades == {"login", "getCurrentUser"}

\* The session an OAuth redirect hands to storeTokensFromOAuth, and the one
\* the login endpoint grants.
OAuthSession == TokenData("t2", Some("r1"), None)
LoginBody == Body(None, None, Some("t1"), Some("r1"), Some(2), None)

ConcAnswers(via) ==
    {Answer(Some(Response(200, b, None)), "", <<>>) :
        b \in IF via = "login" THEN {LoginBody} ELSE SuccessBodies(via)}
    \cup {Answer(Some(Response(401, NoBody, None)), "ERR_BAD_REQUEST",
                  MSG_STATUS),
          Answer(Some(Response(500, NoBody, None)), "ERR_BAD_RESPONSE",
                 MSG_STATUS)}

ConcInit ==
    /\ now = 0
    /\ localStorage = EmptyStorage
    /\ apiClientConfig = DefaultConfig
    /\ backend = "ok"
    /\ calls = [c \in Calls |-> IdleCall]

ConcRequest(c, via, rnd) == Request(c, via, rnd)

ConcRespond(c, ans) ==
    /\ StatusOf(ans) >= 500 => calls[c].serverErrors < MaxConcErrors
    /\ Respond(c, ans)

ConcResubmit(c, rnd) == Resubmit(c, rnd)

ConcSettle(c) == Settle(c, NoFault)

\* The caller of a facade has its result and issues nothing more (the call
\* stays on record); a direct setTokens has returned.
ConcFinish(c) ==
    /\ calls[c].pc \in {"done", "returned"}
    /\ calls' = [calls EXCEPT ![c] =
            IF calls[c].pc = "done" THEN [calls[c] EXCEPT !.pc = "closed"]
            ELSE IdleCall]
    /\ UNCHANGED <<now, localStorage, apiClientConfig, backend>>

ConcSetTokens(c) == SetTokens(c, OAuthSession, NoFault)

ConcTick == now < MaxConcTime /\ Tick

ConcNext ==
    \/ \E c \in Calls, via \in ConcFacades, rnd \in Randoms :
            ConcRequest(c, via, rnd)
    \/ \E c \in Calls : \E ans \in ConcAnswers(calls[c].via) :
            ConcRespond(c, ans)
    \/ \E c \in Calls, rnd \in Randoms : ConcResubmit(c, rnd)
    \/ \E c \in Calls : ConcSettle(c)
    \/ \E c \in Calls : ConcFinish(c)
    \/ \E c \in Calls : ConcSetTokens(c)
    \/ ConcTick

ConcSpec == ConcInit /\ [][ConcNext]_vars

\* ------------------------------------------------- a backend that may fail
\* One call at a time over a backend whose reads may start and stop failing
\* at any moment and which may refuse a write: the facades that read the
\* store, the token manager called directly, and retried requests.
FaultFacades == {"login", "getCurrentUser", "refreshAccessToken", "logout"}

FaultAnswers(via) ==
    {Answer(Some(Response(200, b, None)), "", <<>>) :
        b \in IF via \in Savers THEN {LoginBody} ELSE SuccessBodies(via)}
    \cup {Answer(Some(Response(401, NoBody, None)), "ERR_BAD_REQUEST",
                  MSG_STATUS),
          Answer(Some(Response(500, NoBody, None)), "ERR_BAD_RESPONSE",
                 MSG_STATUS)}

\* localStorage becomes inaccessible: getItem throws from now on.
Break ==
    /\ ~Microtask
    /\ backend = "ok"
    /\ backend' = "unreadable"
    /\ UNCHANGED <<now, localStorage, apiClientConfig, calls>>

Repair ==
    /\ ~Microtask
    /\ backend = "unreadable"
    /\ backend' = "ok"
    /\ UNCHANGED <<now, localStorage, apiClientConfig, calls>>

FaultNext ==
    \/ \E c \in Calls, via \in FaultFacades, rnd \in OneRandom :
            Request(c, via, rnd)
    \/ \E c \in Calls : \E ans \in FaultAnswers(calls[c].via) :
            ConcRespond(c, ans)
    \/ \E c \in Calls, rnd \in OneRandom : Resubmit(c, rnd)
    \/ \E c \in Calls, fault \in Faults : Settle(c, fault)
    \/ \E c \in Calls, data \in TokenInputs, fault \in Faults :
            SetTokens(c, data, fault)
    \/ \E c \in Calls : ClearTokens(c)
    \/ \E c \in Calls : Finish(c)
    \/ ConcTick
    \/ Break
    \/ Repair

FaultSpec == Init /\ [][FaultNext]_vars

\* ------------------------------------------------- claims: refresh, retries
\* C22: refreshAccessToken() without a stored refresh token throws
\* NO_REFRESH_TOKEN, sends nothing and leaves the store as it is; when its
\* request fails, for whatever reason (a 401 from /auth/refresh included, on
\* which the interceptor does not act), the three fields are cleared as the
\* error reaches the caller.
C22_RefreshFailureClears ==
    \A c \in Calls :
        LET k == calls[c]
        IN  (k.via = "refreshAccessToken" /\ k.pc = "done") =>
                /\ k.attempts = 0 <=> ~TruthyStr(getRefreshToken(k.lsBefore))
                /\ k.attempts = 0 =>
                    /\ k.last = None
                    /\ ~k.final[1].ok
                    /\ k.final[1].error[1].code = "NO_REFRESH_TOKEN"
                    /\ localStorage = k.lsBefore
                /\ (k.attempts > 0 /\ ~k.result[1].ok) =>
                    /\ ~k.final[1].ok
                    /\ k.final[1].error = k.result[1].error
                    /\ localStorage = EmptyStorage
                /\ (k.attempts > 0 /\ LastStatus(c) = 401) =>
                    /\ k.lsAfter = k.lsBefore
                    /\ k.effects = <<Ev("throw", "UNAUTHORIZED", None)>>
                /\ ~k.final[1].ok =>
                    (k.attempts = 0 \/ localStorage = EmptyStorage)

\* A 401 from /auth/refresh: the interceptor left the session stored, the
\* facade cleared it.
C22_Witness ==
    \E c \in Calls :
        /\ calls[c].via = "refreshAccessToken"
        /\ calls[c].pc = "done"
        /\ calls[c].attempts > 0
        /\ LastStatus(c) = 401
        /\ \A key \in StorageKeys : getItem(calls[c].lsAfter, key) # None
        /\ localStorage = EmptyStorage

\* refreshAccessToken() threw NO_REFRESH_TOKEN over a stored access token.
C22_WitnessNoToken ==
    \E c \in Calls :
        /\ calls[c].via = "refreshAccessToken"
        /\ calls[c].pc = "done"
        /\ calls[c].attempts = 0
        /\ getAccessToken(localStorage) # None

\* C23: when a request is issued while the stored access token is expired,
\* the request interceptor has the token refreshed: a new token is stored
\* and the request leaves with the new token.
C23_ExpiredTokenIsRefreshed ==
    [][\A c \in Calls :
        (/\ calls[c].pc = "idle"
         /\ calls'[c].pc = "sent"
         /\ getAccessToken(localStorage) # None
         /\ isTokenExpired(localStorage, now)) =>
            /\ getAccessToken(localStorage') # None
            /\ getAccessToken(localStorage') # getAccessToken(localStorage)
            /\ ~isTokenExpired(localStorage', now')
            /\ calls'[c].config.headers["Authorization"]
                    = Some(Bearer(getAccessToken(localStorage')[1]))]_vars

\* What the interceptor makes of answer `ans` to a first attempt of the
\* request of call c.
FirstAttemptOutcome(c, ans) ==
    responseErrorInterceptor(
        AxiosError([calls[c].config EXCEPT !._retryCount = None,
                                           !._retry = None],
                   ans.response, ans.code, ans.message),
        apiClientConfig, calls[c].lsBefore)

\* C28: when a later attempt of a retried call ends otherwise than with a
\* status of 500 or more, that outcome decides as it would on a first
\* attempt (a 2xx returns the body; a 401 clears the store, invokes the
\* unauthenticated callback once and throws UNAUTHORIZED; a timeout throws
\* TIMEOUT and nothing is sent again); the retry counter is the number of
\* answers of 500 or more so far, whatever their status.
C28_LaterAttemptDecidesAlike ==
    \A c \in Calls :
        LET k == calls[c]
        IN  /\ k.pc \in {"sent", "backoff"} =>
                RetryCount(k.config) = k.serverErrors
            /\ Received(c) =>
                RetryCount(k.config)
                    = IF k.serverErrors > MAX_RETRIES THEN MAX_RETRIES
                      ELSE k.serverErrors
            /\ (Receiving(c) /\ k.attempts > 1 /\ LastStatus(c) < 500) =>
                /\ k.attempts = k.serverErrors + 1
                /\ IF validateStatus(LastStatus(c))
                   THEN /\ k.result[1]
                            = Resolved(responseInterceptor(k.last[1].response[1]))
                        /\ k.effects = <<>>
                        /\ localStorage = k.lsBefore
                   ELSE LET r == FirstAttemptOutcome(c, k.last[1])
                        IN  /\ r.kind = "throw"
                            /\ k.result[1] = Rejected(r.thrown[1])
                            /\ k.effects = r.effects
                            /\ localStorage = r.ls
                /\ (LastStatus(c) = 401 /\ k.config.url \notin AuthEndpoints) =>
                    /\ localStorage = EmptyStorage
                    /\ CountOp(k.effects, {"onUnauthorized"})
                            = IF apiClientConfig.onUnauthorized = None
                              THEN 0 ELSE 1
                    /\ Thrown(c).code = "UNAUTHORIZED"
                /\ (k.last[1].response = None
                    /\ k.last[1].message = MSG_TIMEOUT) =>
                        Thrown(c).code = "TIMEOUT"

\* 500 (or 502, 503) twice, then a 401 that ended a stored session.
C28_Witness ==
    \E c \in Calls :
        /\ Receiving(c)
        /\ calls[c].attempts = 3
        /\ calls[c].serverErrors = 2
        /\ LastStatus(c) = 401
        /\ calls[c].via = "getCurrentUser"
        /\ getAccessToken(calls[c].lsBefore) # None
        /\ localStorage = EmptyStorage

\* ---------------------------------------- claims: the other auth-facade paths
OtherAuthFacades == {"getCurrentUser", "updateProfile", "logout"}

\* C29: a 401 on /auth/me, /auth/profile or /auth/logout is handled as on a
\* non-auth path: the store is cleared and the unauthenticated callback is
\* invoked once; so logout() answered 401 invokes the callback and still
\* reports no error to its caller, while the other two rethrow UNAUTHORIZED.
C29_OtherAuthPathsClear ==
    \A c \in Calls :
        LET k == calls[c]
        IN  (Received(c) /\ k.via \in OtherAuthFacades /\ LastStatus(c) = 401) =>
                /\ k.config.url = FacadePath[k.via]
                /\ k.config.url \notin AuthEndpoints
                /\ k.lsAfter = EmptyStorage
                /\ CountOp(k.effects, {"clearTokens"}) = 1
                /\ CountOp(k.effects, {"onUnauthorized"}) = 1
                /\ \E i \in 1..Len(k.effects) :
                        k.effects[i]
                            = Ev("onUnauthorized",
                                 apiClientConfig.onUnauthorized[1], None)
                /\ Thrown(c).code = "UNAUTHORIZED"
                /\ k.pc = "done" =>
                    /\ localStorage = EmptyStorage
                    /\ IF k.via = "logout"
                       THEN k.final = Some(Resolved(Void))
                       ELSE /\ ~k.final[1].ok
                            /\ k.final[1].error[1].code = "UNAUTHORIZED"

\* logout() of a stored session was answered 401: the callback ran, logout
\* returned normally.
C29_Witness ==
    \E c \in Calls :
        /\ calls[c].via = "logout"
        /\ calls[c].pc = "done"
        /\ calls[c].attempts > 0
        /\ LastStatus(c) = 401
        /\ getRefreshToken(calls[c].lsBefore) # None
        /\ CountOp(calls[c].effects, {"onUnauthorized"}) = 1
        /\ calls[c].final = Some(Resolved(Void))

\* updateProfile() was answered 401 while a session was stored.
C29_WitnessProfile ==
    \E c \in Calls :
        /\ calls[c].via = "updateProfile"
        /\ Receiving(c)
        /\ LastStatus(c) = 401
        /\ getAccessToken(calls[c].lsBefore) # None
        /\ localStorage = EmptyStorage

\* --------------------------------------------- claims: two calls in flight
\* The answer to call c arrived (now or, for a call on record, earlier).
Answered(c) ==
    calls[c].pc \in {"settling", "done", "closed"} /\ calls[c].last # None

NonAuth401(c) ==
    /\ Answered(c)
    /\ LastStatus(c) = 401
    /\ calls[c].config.url \notin AuthEndpoints

\* The session found stored when the 401 of call c arrived is not the one
\* the call was sent under.
StaleAt401(c) ==
    /\ NonAuth401(c)
    /\ getAccessToken(calls[c].lsBefore) # None
    /\ calls[c].config.headers["Authorization"]
            # Some(Bearer(getAccessToken(calls[c].lsBefore)[1]))

\* C25: with two calls in flight, the 401 answering a non-auth call clears
\* the session stored when it arrives, also when that session was saved by a
\* login (or a direct save) that completed after the call was sent: the
\* store is empty, isAuthenticated() is false and the unauthenticated
\* callback was invoked.
C25_Stale401ClearsLaterSession ==
    \A c \in Calls :
        StaleAt401(c) =>
            /\ calls[c].lsAfter = EmptyStorage
            /\ CountOp(calls[c].effects, {"onUnauthorized"}) = 1
            /\ Receiving(c) =>
                /\ localStorage = EmptyStorage
                /\ ~isAuthenticated(localStorage, now)

\* A call sent without credentials, login succeeded and saved, then the
\* call's 401 arrived and emptied the store.
C25_Witness ==
    \E c, d \in Calls :
        /\ c # d
        /\ calls[d].via = "login"
        /\ calls[d].pc = "closed"
        /\ calls[d].final[1].ok
        /\ Receiving(c)
        /\ StaleAt401(c)
        /\ calls[c].config.headers["Authorization"] = None
        /\ getAccessToken(calls[c].lsBefore) = Some("t1")
        /\ getRefreshToken(calls[c].lsBefore) = Some("r1")
        /\ localStorage = EmptyStorage
        /\ ~isAuthenticated(localStorage, now)
        /\ CountOp(calls[c].effects, {"onUnauthorized"}) = 1

\* C26: a resubmission passes the request interceptor again with the store
\* as it is then: if the store holds a token that is not expired, the
\* attempt carries that token (also when it was saved during the backoff),
\* and the attempt carries an X-Request-ID generated for it, which differs
\* from that of the attempt before; path and retry counter are kept.
C26_ResubmissionReadsStoreAnew ==
    [][\A c \in Calls :
        (calls[c].pc = "backoff" /\ calls'[c].pc = "sent") =>
            /\ ExpectedAuthorization(localStorage, now) # None =>
                    calls'[c].config.headers["Authorization"]
                        = ExpectedAuthorization(localStorage, now)
            /\ calls'[c].config.headers["X-Request-ID"]
                    # calls[c].config.headers["X-Request-ID"]
            /\ \E rnd \in Randoms :
                    calls'[c].config.headers["X-Request-ID"]
                        = Some(RequestId(now, rnd))
            /\ calls'[c].config.url = calls[c].config.url
            /\ calls'[c].config._retryCount = calls[c].config._retryCount
            /\ calls'[c].attempts = calls[c].attempts + 1]_vars

\* A second attempt in flight under the token login saved during the
\* backoff, the first attempt having failed under another stored token.
C26_Witness ==
    \E c, d \in Calls :
        /\ c # d
        /\ calls[c].pc = "sent"
        /\ calls[c].attempts = 2
        /\ getAccessToken(calls[c].lsBefore) = Some("t2")
        /\ calls[d].via = "login"
        /\ calls[d].pc = "closed"
        /\ calls[d].final[1].ok
        /\ calls[c].config.headers["Authorization"] = Some(Bearer("t1"))
        /\ ~isTokenExpired(localStorage, now)

\* C27: every 401 answering a non-auth call empties the store and invokes
\* the unauthenticated callback once for that call, in the step in which the
\* answer arrives and whatever another call's 401 did before (the store may
\* be empty already, the call's header stale); the record of the other calls
\* is not touched.
C27_Each401RunsFullPath ==
    /\ [](\A c \in Calls :
            NonAuth401(c) =>
                /\ calls[c].lsAfter = EmptyStorage
                /\ calls[c].effects
                        = <<Ev("clearTokens", "", None),
                            Ev("onUnauthorized",
                               apiClientConfig.onUnauthorized[1], None),
                            Ev("throw", "UNAUTHORIZED", None)>>)
    /\ [][\A c \in Calls :
            (calls[c].pc = "sent" /\ calls'[c].pc = "settling"
             /\ StatusOf(calls'[c].last[1]) = 401
             /\ calls[c].config.url \notin AuthEndpoints) =>
                /\ localStorage' = EmptyStorage
                /\ CountOp(calls'[c].effects, {"onUnauthorized"})
                        = CountOp(calls[c].effects, {"onUnauthorized"}) + 1
                /\ \A d \in Calls \ {c} : calls'[d] = calls[d]]_vars

\* Two calls sent under one session were both answered 401: the first
\* emptied the store, the second found it empty, carried the stale header and
\* invoked the callback again.
C27_Witness ==
    \E c, d \in Calls :
        /\ c # d
        /\ calls[d].pc = "closed"
        /\ NonAuth401(d)
        /\ getAccessToken(calls[d].lsBefore) # None
        /\ Receiving(c)
        /\ NonAuth401(c)
        /\ calls[c].lsBefore = EmptyStorage
        /\ calls[c].config.headers["Authorization"] = Some(Bearer("t2"))
        /\ CountOp(calls[c].effects, {"onUnauthorized"}) = 1
        /\ CountOp(calls[d].effects, {"onUnauthorized"}) = 1

\* ----------------------------------------------- claims: a failing backend
\* C30: while reads of the backend fail, getAccessToken() and
\* getRefreshToken() return null, isTokenExpired() returns true and
\* isAuthenticated() false, whatever is stored; a request issued then gets no
\* Authorization header and a resubmission gets none attached; and setTokens
\* and clearTokens return to their caller whether or not the backend refused
\* them.
C30_ReadFailureMeansUnauthenticated ==
    /\ [](getItemThrows =>
            /\ getAccessToken(localStorage) = None
            /\ getRefreshToken(localStorage) = None
            /\ isTokenExpired(localStorage, now)
            /\ ~isAuthenticated(localStorage, now)
            /\ ExpectedAuthorization(localStorage, now) = None)
    /\ [](\A c \in Calls :
            (calls[c].pc = "returned"
             /\ calls[c].via \in {"setTokens", "clearTokens"}) =>
                calls[c].final = Some(Resolved(NoBody)))
    /\ [][\A c \in Calls :
            (getItemThrows /\ calls'[c].pc = "sent") =>
                /\ calls[c].pc = "idle" =>
                        calls'[c].config.headers["Authorization"] = None
                /\ calls[c].pc = "backoff" =>
                        calls'[c].config.headers["Authorization"]
                            = calls[c].config.headers["Authorization"]]_vars
    /\ [][\A c \in Calls :
            (getItemThrows /\ calls[c].pc = "idle"
             /\ calls'[c].via \in {"refreshAccessToken", "logout"}) =>
                calls'[c].attempts = 0]_vars

\* A request in flight without Authorization header, issued while reads
\* failed over a stored session that has not expired.
C30_Witness ==
    \E c \in Calls :
        /\ getItemThrows
        /\ calls[c].pc = "sent"
        /\ calls[c].attempts = 1
        /\ calls[c].via = "getCurrentUser"
        /\ calls[c].config.headers["Authorization"] = None
        /\ getItem(localStorage, TOKEN_KEY) # None
        /\ getItem(localStorage, REFRESH_TOKEN_KEY) # None
        /\ getItem(localStorage, TOKEN_EXPIRY_KEY) # None
        /\ DateNow(now) < parseInt(getItem(localStorage, TOKEN_EXPIRY_KEY)[1]).n

\* setTokens returned under failing reads although the backend refused the
\* first write.
C30_WitnessSave ==
    \E c \in Calls :
        /\ getItemThrows
        /\ calls[c].pc = "returned"
        /\ calls[c].via = "setTokens"
        /\ calls[c].caught

====
